---- MODULE Spec2Model ----
(***************************************************************************)
(* Model of the three browser-automation scripts of the repository:        *)
(*   frontend/scripts/comprehensive-ellaai-analysis.py  ("comprehensive")  *)
(*   frontend/analyze_platform.py                       ("platform")       *)
(*   frontend/analyze_admin.py                          ("admin")          *)
(* One run of one script is one behaviour.  The browser-automation library *)
(* and the file system are the environment: every navigation, DOM query,   *)
(* screenshot and file write either returns a value drawn from a small set *)
(* or raises.                                                              *)
(***************************************************************************)
EXTENDS Integers, Sequences, FiniteSets, TLC

VARIABLES
    script,            \* which of the three scripts this run executes
    pc,                \* position of the run in the script
    cur,               \* index of the loop's current target (1-based)
    response,          \* status code returned by the current target's page.goto
    shot,              \* screenshot_path of the current target (<<>> = none yet)
    raised,            \* an exception is propagating out of the try block
    browser,           \* "none" | "open" | "closed"
    closeCalls,        \* number of browser.close() calls
    admin_analysis,    \* comprehensive: the local admin_analysis
    analysis_results,  \* comprehensive: self.analysis_results
    app_analysis,      \* platform: the local app_analysis
    public_analysis,   \* platform: the local public_analysis
    results,           \* platform: analysis_results / results
    jsonWrites,        \* number of times the JSON report file was written
    mdWrites,          \* number of times the Markdown summary was written
    screenshots,       \* names of the screenshot files written
    exitCode,          \* -1 while running, else the process exit code
    probe,             \* history: per loop and target, how far its probe got
    navs,              \* history: per loop and target, the page.goto calls made
    landed,            \* history: per URL of urls_to_check, <<page.url>> once read
    extracted,         \* history: the URLs extract_navigation_items was called on
    nav_items,         \* history: the list its last call returned
    per_selector,      \* history: the items each selector added in that call
    stagesDone,        \* history: the stages of the try block that returned
    failedStage,       \* history: "none", or the stage an exception left
    failKind,          \* history: the kind of call that raised there
    deviations,        \* history: inputs so far that were not the nominal one
    \* test_service_connectivity, event by event
    conn_pc,           \* "start" | "goto" (handlers registered) | "done"
    network_requests,  \* the local list network_requests
    api_calls,         \* connectivity_results["api_calls"]
    issued,            \* history: the URL of every request issued, in issue order
    answered,          \* history: per request issued, its response's status (0 = none)
    registeredAt,      \* history: requests issued before page.on registered the handlers
    returnedAt,        \* history: requests issued before page.goto returned
    \* compare_designs, as a function of its arguments
    cmp_pc,            \* "call" | "returned"
    cmp_main_app,      \* its argument main_app_data
    cmp_admin,         \* its argument admin_data
    design_gaps,       \* the list it returns
    \* test_form_functionality, call by call
    form_pc,           \* the next statement of the function
    functionality,     \* its local functionality
    form_buttons,      \* submit_button.count() (-1 = not evaluated)
    form_raised        \* history: "none", or the call that raised

loopVars == <<cur, response, shot>>

browserVars == <<browser, closeCalls>>

compVars == <<admin_analysis, analysis_results>>

platVars == <<app_analysis, public_analysis, results>>

fileVars == <<jsonWrites, mdWrites, screenshots>>

excVars == <<raised, failedStage, failKind>>

appVars == <<landed, extracted, nav_items, per_selector>>

mainVars == <<script, pc, loopVars, browserVars, compVars, platVars, fileVars,
              exitCode, probe, navs, appVars, stagesDone, excVars, deviations>>

connVars == <<conn_pc, network_requests, api_calls, issued, answered,
              registeredAt, returnedAt>>

\* the variables of the specifications of single functions
cmpVars == <<cmp_pc, cmp_main_app, cmp_admin, design_gaps>>

formVars == <<form_pc, functionality, form_buttons, form_raised>>

otherVars == <<connVars, cmpVars, formVars>>

vars == <<mainVars, otherVars>>

(***************************************************************************)
(* Inputs of the environment.                                              *)
(***************************************************************************)
Scripts == {"comprehensive", "platform", "admin"}

\* The environment's nominal answer to a call is: the call returns, the
\* navigation ends with status 200 on the page asked for, the page is no
\* not-found page, its body is long and says nothing special.  A run takes
\* at most MaxDeviations other answers (an exception, an error status, a
\* redirect to the login page, a not-found page, a short body, ...).
MaxDeviations == 3

Spend(n) ==
    /\ deviations + n <= MaxDeviations
    /\ deviations' = deviations + n

Cost(notNominal) == IF notNominal THEN 1 ELSE 0

\* status codes page.goto may report
StatusCodes == {200, 404}

\* lengths of document.body.innerText a page may have
BodyLengths == {50, 150}

\* str(e) of the exception a library call raises
ErrorText == "Timeout 30000ms exceeded."

(***************************************************************************)
(* Python dicts: functions with a finite domain of keys.                   *)
(***************************************************************************)
EmptyDict == [k \in {} |-> 0]

DictSet(d, k, v) == [x \in (DOMAIN d) \cup {k} |-> IF x = k THEN v ELSE d[x]]

\* dict.get(key, default)
Get(d, k, default) == IF k \in DOMAIN d THEN d[k] ELSE default

(***************************************************************************)
(* Target lists.                                                           *)
(***************************************************************************)
admin_pages ==
    << "/admin", "/admin/create-company", "/admin/users",
       "/admin/audit-logs", "/admin/system-health", "/admin/database-query" >>

urls_to_check ==
    << "https://ellaai-platform-prod.web.app/",
       "https://ellaai-platform-prod.web.app/dashboard",
       "https://ellaai-platform-prod.web.app/demo",
       "https://ellaai-platform-prod.web.app/public" >>

public_urls ==
    << "https://ellaai-platform-prod.web.app/about",
       "https://ellaai-platform-prod.web.app/features",
       "https://ellaai-platform-prod.web.app/pricing",
       "https://ellaai-platform-prod.web.app/contact",
       "https://ellaai-platform-prod.web.app/help",
       "https://ellaai-platform-prod.web.app/docs" >>

\* the per-target loops, named by the stage that runs them
Loops == {"c_admin", "p_app", "p_pub"}

TargetList(loop) ==
    CASE loop = "c_admin" -> admin_pages
      [] loop = "p_app"   -> urls_to_check
      [] loop = "p_pub"   -> public_urls

\* a loop that steps over every other target
NextIndex_Skips(i) == i + 2

\* "for target in list": the index of the target after the one at index i
NextIndex(i) == i + 1

\* a loop that tries a target again when its probe raised
IndexAfter_Retry(i, how) == IF how = "failed" THEN i ELSE NextIndex(i)

\* the index the loop goes on with after an iteration that ended in `how`:
\* no loop has a retry, the for statement takes the next target in any case
IndexAfter(i, how) == NextIndex(i)

(***************************************************************************)
(* Strings that the code inspects: sequences of characters.                *)
(***************************************************************************)
\* a word of n letters
Word(n) == [i \in 1..n |-> "a"]

\* the same word with white space around it
Padded(n) == <<" ">> \o Word(n) \o <<" ", " ">>

\* the path of page.url when the browser stays on the URL it was sent to
path_of(url) ==
    CASE url = "https://ellaai-platform-prod.web.app/" -> <<"/">>
      [] url = "https://ellaai-platform-prod.web.app/dashboard" ->
            <<"/", "d", "a", "s", "h", "b", "o", "a", "r", "d">>
      [] url = "https://ellaai-platform-prod.web.app/demo" ->
            <<"/", "d", "e", "m", "o">>
      [] url = "https://ellaai-platform-prod.web.app/public" ->
            <<"/", "p", "u", "b", "l", "i", "c">>

\* the paths page.url may have after page.goto(url): the one asked for, the
\* login page under two spellings, and another page of the application
LandingUrls(url) ==
    {path_of(url),
     <<"/", "l", "o", "g", "i", "n">>,
     <<"/", "L", "o", "g", "I", "n">>,
     <<"/", "h", "o", "m", "e">>}

lower_char(c) ==
    CASE c = "L" -> "l"
      [] c = "O" -> "o"
      [] c = "G" -> "g"
      [] c = "I" -> "i"
      [] c = "N" -> "n"
      [] OTHER -> c

\* a comparison that keeps the case of the URL
lower_AsIs(s) == s

\* str.lower()
lower(s) == [i \in 1..Len(s) |-> lower_char(s[i])]

\* needle in hay
contains(hay, needle) ==
    \E k \in 0..(Len(hay) - Len(needle)) :
        SubSeq(hay, k + 1, k + Len(needle)) = needle

\* 'login'
LoginWord == <<"l", "o", "g", "i", "n">>

RECURSIVE lstrip(_)
lstrip(s) == IF s # <<>> /\ Head(s) = " " THEN lstrip(Tail(s)) ELSE s

RECURSIVE rstrip(_)
rstrip(s) ==
    IF s # <<>> /\ s[Len(s)] = " " THEN rstrip(SubSeq(s, 1, Len(s) - 1)) ELSE s

\* str.strip()
strip(s) == rstrip(lstrip(s))

(***************************************************************************)
(* extract_navigation_items of analyze_platform.py.                        *)
(***************************************************************************)
selectors ==
    << "nav a", "[role=\"navigation\"] a", ".navbar a", ".menu a",
       ".nav-link", "header a" >>

\* elements[:10]
MaxElementsPerSelector == 10

\* len(text) < 30
MaxTextLength == 30

\* an element of the page: its inner text and href; inner_text() of a
\* detached element raises
Link(text) == [inner_text |-> text, href |-> "/home", detached |-> FALSE]

DetachedLink == [inner_text |-> <<>>, href |-> "/home", detached |-> TRUE]

\* what page.query_selector_all(selector) may do: raise, or return one of
\* these lists of elements
NoMatch == [raises |-> FALSE, elements |-> <<>>]

QueryRaises == [raises |-> TRUE, elements |-> <<>>]

\* twelve links with short texts
ManyLinks == [raises |-> FALSE, elements |-> [k \in 1..12 |-> Link(Padded(4))]]

\* texts of 29 and of 30 characters, a blank text, a text of 29 characters
\* with white space around it, a detached element and a link after it
MixedLinks ==
    [raises |-> FALSE,
     elements |-> << Link(Word(29)), Link(Word(30)), Link(<<" ", " ">>),
                     Link(Padded(29)), DetachedLink, Link(Word(4)) >>]

\* eleven links, the tenth with a text of 30 characters
LongTenth ==
    [raises |-> FALSE,
     elements |-> [k \in 1..11 |->
                      IF k = 10 THEN Link(Word(30)) ELSE Link(Word(4))]]

QueryResults == <<NoMatch, QueryRaises, ManyLinks, MixedLinks, LongTenth>>

\* a page on which no selector matches anything
NominalLayouts == {[s \in 1..Len(selectors) |-> NoMatch]}

\* pages on which every selector gets the same answer, and a page on which
\* the selectors get the answers in turn
PageLayouts ==
    {[s \in 1..Len(selectors) |-> QueryResults[r]] : r \in 1..Len(QueryResults)}
       \cup {[s \in 1..Len(selectors) |->
                 QueryResults[((s - 1) % Len(QueryResults)) + 1]]}

\* the loop over elements[:10] from the k-th element on: the items it
\* appends; an inner_text() that raises ends the loop (except: continue)
RECURSIVE items_from(_, _)
items_from(elements, k) ==
    IF k > Len(elements) \/ k > MaxElementsPerSelector THEN <<>>
    ELSE IF elements[k].detached THEN <<>>
    ELSE LET text == strip(elements[k].inner_text)
         IN  (IF text # <<>> /\ Len(text) < MaxTextLength
              THEN << [text |-> text, href |-> elements[k].href] >>
              ELSE <<>>)
             \o items_from(elements, k + 1)

\* the items one selector adds
selector_items(result) ==
    IF result.raises THEN <<>> ELSE items_from(result.elements, 1)

\* the loop over selectors from the s-th on
RECURSIVE items_of_selectors(_, _)
items_of_selectors(layout, s) ==
    IF s > Len(selectors) THEN <<>>
    ELSE selector_items(layout[s]) \o items_of_selectors(layout, s + 1)

extract_navigation_items(layout) == items_of_selectors(layout, 1)

(***************************************************************************)
(* The stages of each script's try block, in the order it calls them.      *)
(***************************************************************************)
\* the orders with the report generated before the last probing stage
StageOrder_ReportEarly(s) ==
    CASE s = "comprehensive" ->
            <<"c_main", "c_admin", "c_report", "c_connectivity", "c_compare">>
      [] s = "platform" -> <<"p_login", "p_app", "p_report", "p_pub">>
      [] s = "admin"    -> <<"a_page">>

StageOrder(s) ==
    CASE s = "comprehensive" ->
            <<"c_main", "c_admin", "c_connectivity", "c_compare", "c_report">>
      [] s = "platform" -> <<"p_login", "p_app", "p_pub", "p_report">>
      [] s = "admin"    -> <<"a_page">>

\* the stages that drive the browser
ProbingStages(s) ==
    CASE s = "comprehensive" -> {"c_main", "c_admin", "c_connectivity"}
      [] s = "platform"      -> {"p_login", "p_app", "p_pub"}
      [] s = "admin"         -> {"a_page"}

StageIndex(s, stage) ==
    CHOOSE n \in 1..Len(StageOrder(s)) : StageOrder(s)[n] = stage

\* where control goes when `stage` returns: the next call of the try block,
\* or the finally clause after the last one
AfterStage(s, stage) ==
    IF StageIndex(s, stage) = Len(StageOrder(s))
    THEN "finally"
    ELSE StageOrder(s)[StageIndex(s, stage) + 1]

\* `stage` returns; a loop of the next stage starts at its first target
StageReturns(stage) ==
    /\ stagesDone' = stagesDone \cup {stage}
    /\ pc' = AfterStage(script, stage)
    /\ cur' = 1
    /\ response' = 0
    /\ shot' = <<>>

\* a call of kind `kind` raises and the exception leaves `stage`: control
\* goes to the except block of the script's try statement
StageRaises(stage, kind) ==
    /\ Spend(1)
    /\ failedStage' = stage
    /\ failKind' = kind
    /\ raised' = TRUE
    /\ pc' = "handler"

(***************************************************************************)
(* History of the probes.                                                  *)
(***************************************************************************)
StartProbe(loop, i) == [probe EXCEPT ![loop][i] = "active"]

\* how = "done" (the loop body ran to its end), "skipped" (it ended early
\* on a redirect to the login page) or "failed" (a call in it raised)
EndProbe(loop, i, how) == [probe EXCEPT ![loop][i] = how]

\* one more page.goto of target i of the loop
Navigate(loop, i) == [navs EXCEPT ![loop][i] = @ + 1]

(***************************************************************************)
(* test_service_connectivity at its first statement: no handler is          *)
(* registered, network_requests is empty, api_calls is the empty list.      *)
(***************************************************************************)
ConnectivityInit ==
    /\ conn_pc = "start"
    /\ network_requests = <<>>
    /\ api_calls = <<>>
    /\ issued = <<>>
    /\ answered = <<>>
    /\ registeredAt = 0
    /\ returnedAt = 0

(***************************************************************************)
(* Initial state: the script is started, nothing has run.                  *)
(***************************************************************************)
MainInit ==
    /\ script \in Scripts
    /\ pc = "launch"
    /\ cur = 1
    /\ response = 0
    /\ shot = <<>>
    /\ raised = FALSE
    /\ browser = "none"
    /\ closeCalls = 0
    /\ admin_analysis =
          [pages |-> EmptyDict, navigation_structure |-> EmptyDict,
           connectivity_issues |-> <<>>, functionality_tests |-> EmptyDict]
    /\ analysis_results =
          [timestamp |-> "now", main_app |-> EmptyDict,
           admin_interface |-> EmptyDict, design_analysis |-> EmptyDict,
           service_connectivity |-> EmptyDict, design_gaps |-> <<>>]
    /\ app_analysis =
          [accessible_pages |-> <<>>, navigation_structure |-> <<>>,
           inferred_features |-> <<>>, missing_admin_features |-> <<>>]
    /\ public_analysis = [accessible_content |-> <<>>, platform_insights |-> <<>>]
    /\ results = EmptyDict
    /\ jsonWrites = 0
    /\ mdWrites = 0
    /\ screenshots = {}
    /\ exitCode = -1
    /\ probe = [l \in Loops |-> [i \in 1..Len(TargetList(l)) |-> "pending"]]
    /\ navs = [l \in Loops |-> [i \in 1..Len(TargetList(l)) |-> 0]]
    /\ landed = [i \in 1..Len(urls_to_check) |-> <<>>]
    /\ extracted = {}
    /\ nav_items = <<>>
    /\ per_selector = [s \in 1..Len(selectors) |-> 0]
    /\ stagesDone = {}
    /\ failedStage = "none"
    /\ failKind = "none"
    /\ deviations = 0

\* compare_designs is not called with arguments of its own
CompareNotCalled ==
    /\ cmp_pc = "call"
    /\ cmp_main_app = EmptyDict
    /\ cmp_admin = EmptyDict
    /\ design_gaps = <<>>

\* test_form_functionality at its first statement
FormInit ==
    /\ form_pc = "required"
    /\ functionality =
          [has_validation |-> FALSE, required_fields |-> <<>>,
           submit_test |-> "not_tested", api_connectivity |-> "unknown"]
    /\ form_buttons = -1
    /\ form_raised = "none"

Init == MainInit /\ ConnectivityInit /\ CompareNotCalled /\ FormInit

(***************************************************************************)
(* Control flow shared by the three scripts:                               *)
(*   with playwright: launch; try: stages  except: handler                 *)
(*   finally: browser.close()      and then the process boundary.          *)
(***************************************************************************)
\* chromium.launch, new_context and new_page, then the first statement of the
\* try block (analyze_platform builds its analysis_results there)
Launch ==
    /\ pc = "launch"
    /\ \/ /\ Spend(0)
          /\ browser' = "open"
          /\ pc' = StageOrder(script)[1]
          /\ results' = IF script = "platform"
                        THEN [login_page |-> EmptyDict,
                              main_application |-> EmptyDict,
                              recommendations |->
                                 [critical |-> <<>>, high_priority |-> <<>>,
                                  medium_priority |-> <<>>, low_priority |-> <<>>]]
                        ELSE results
          /\ UNCHANGED excVars
       \/ /\ Spend(1)               \* the browser session cannot be set up
          /\ raised' = TRUE
          /\ failKind' = "launch"
          /\ pc' = "boundary"
          /\ UNCHANGED <<browser, results, failedStage>>
    /\ UNCHANGED <<otherVars, appVars, script, navs, loopVars, closeCalls, compVars, app_analysis,
                   public_analysis, fileVars, exitCode, probe, stagesDone>>

(***************************************************************************)
(* comprehensive-ellaai-analysis.py                                        *)
(***************************************************************************)
\* take_screenshot: the file "<name>_<timestamp>.png"; a name is a pair of a
\* prefix and the target it was taken of ("" when there is one target only)
take_screenshot(name) == name

\* the value extract_design_tokens returns for a page with CSS variables v
design_tokens_of(v) == [cssVariables |-> v, elementStyles |-> EmptyDict]

\* stage 1: analyze_main_application (no try/except of its own)
AnalyzeMainApplication ==
    /\ script = "comprehensive" /\ pc = "c_main"
    /\ \/ /\ StageRaises("c_main", "goto")        \* page.goto raises
          /\ UNCHANGED <<screenshots, analysis_results, stagesDone, loopVars>>
       \/ /\ StageRaises("c_main", "query")       \* a page.evaluate raises
          /\ screenshots' =
                screenshots \cup {take_screenshot(<<"main_dashboard", "">>)}
          /\ UNCHANGED <<analysis_results, stagesDone, loopVars>>
       \/ \E is_login_page \in BOOLEAN :
          /\ Spend(Cost(is_login_page))
          /\ screenshots' =
                screenshots \cup {take_screenshot(<<"main_dashboard", "">>)}
          /\ analysis_results' =
                [analysis_results EXCEPT !.main_app =
                    [screenshot_path |-> take_screenshot(<<"main_dashboard", "">>),
                     page_structure |-> [title |-> "EllaAI"],
                     design_tokens |-> design_tokens_of(EmptyDict),
                     is_login_page |-> is_login_page,
                     timestamp |-> "now"]]
          /\ StageReturns("c_main")
          /\ UNCHANGED excVars
    /\ UNCHANGED <<otherVars, appVars, script, navs, browserVars, admin_analysis, platVars, jsonWrites,
                   mdWrites, exitCode, probe>>

\* stage 2: analyze_admin_interface, one try/except per admin path
ContentThreshold == 100

is_error_of(status_code, is_404) == status_code >= 400 \/ is_404

\* the entry the try body stores for a page it analysed to the end
page_entry(screenshot_path, status_code, is_404, bodyLen) ==
    [screenshot_path |-> screenshot_path,
     status_code |-> status_code,
     is_error |-> is_error_of(status_code, is_404),
     page_analysis |-> [hasContent |-> bodyLen > ContentThreshold],
     functionality_test |-> EmptyDict,
     design_tokens |-> design_tokens_of(EmptyDict)]

\* the entry the except block stores
failed_entry(e) == [error |-> e, status |-> "failed"]

\* an except block that prints the error and stores nothing
AdminExcept_Omits(pages, admin_path, e) == pages

\* except Exception as e: admin_analysis["pages"][admin_path] = {...}
AdminExcept(pages, admin_path, e) == DictSet(pages, admin_path, failed_entry(e))

\* end of one iteration of the loop over admin_pages
AdminIterationEnds(pages, how) ==
    /\ admin_analysis' = [admin_analysis EXCEPT !.pages = pages]
    /\ probe' = EndProbe("c_admin", cur, how)
    /\ cur' = IndexAfter(cur, how)
    /\ response' = 0
    /\ shot' = <<>>
    /\ pc' = "c_admin"

\* page.goto(full_url) and the fixed wait
AdminGoto ==
    /\ script = "comprehensive" /\ pc = "c_admin"
    /\ cur \in 1..Len(admin_pages)
    /\ \/ \E status \in StatusCodes :        \* page.goto returns a response
          /\ Spend(Cost(status # 200))
          /\ response' = status
          /\ probe' = StartProbe("c_admin", cur)
          /\ pc' = "c_admin_shot"
          /\ UNCHANGED <<cur, shot, admin_analysis>>
       \/ /\ Spend(1)                         \* page.goto raises
          /\ AdminIterationEnds(
                AdminExcept(admin_analysis.pages, admin_pages[cur], ErrorText),
                "failed")
    /\ navs' = Navigate("c_admin", cur)
    /\ UNCHANGED <<otherVars, appVars, script, browserVars, analysis_results, platVars, fileVars,
                   exitCode, stagesDone, excVars>>

\* take_screenshot(page, "admin_<page_name>")
AdminScreenshot ==
    /\ script = "comprehensive" /\ pc = "c_admin_shot"
    /\ \/ /\ Spend(0)
          /\ shot' = take_screenshot(<<"admin", admin_pages[cur]>>)
          /\ screenshots' = screenshots \cup {shot'}
          /\ pc' = "c_admin_analyze"
          /\ UNCHANGED <<cur, response, admin_analysis, probe>>
       \/ /\ Spend(1)                         \* page.screenshot raises
          /\ AdminIterationEnds(
                AdminExcept(admin_analysis.pages, admin_pages[cur], ErrorText),
                "failed")
          /\ UNCHANGED screenshots
    /\ UNCHANGED <<otherVars, appVars, script, navs, browserVars, analysis_results, platVars, jsonWrites,
                   mdWrites, exitCode, stagesDone, excVars>>

\* the not-found locator, page.evaluate, test_form_functionality,
\* extract_design_tokens and the assignment of the page's entry
AdminAnalyze ==
    /\ script = "comprehensive" /\ pc = "c_admin_analyze"
    /\ \/ \E is_404 \in BOOLEAN, bodyLen \in BodyLengths :
          /\ Spend(Cost(is_404) + Cost(bodyLen <= ContentThreshold))
          /\ AdminIterationEnds(
                DictSet(admin_analysis.pages, admin_pages[cur],
                        page_entry(shot, response, is_404, bodyLen)),
                "done")
       \/ /\ Spend(1)                         \* a locator or evaluate raises
          /\ AdminIterationEnds(
                AdminExcept(admin_analysis.pages, admin_pages[cur], ErrorText),
                "failed")
    /\ UNCHANGED <<otherVars, appVars, script, navs, browserVars, analysis_results, platVars, fileVars,
                   exitCode, stagesDone, excVars>>

\* return admin_analysis; run_analysis stores it under "admin_interface"
AdminReturn ==
    /\ script = "comprehensive" /\ pc = "c_admin"
    /\ cur > Len(admin_pages)
    /\ Spend(0)
    /\ analysis_results' =
          [analysis_results EXCEPT !.admin_interface = admin_analysis]
    /\ StageReturns("c_admin")
    /\ UNCHANGED <<otherVars, appVars, script, navs, browserVars, admin_analysis, platVars, fileVars,
                   exitCode, probe, excVars>>

\* stage 3: test_service_connectivity (no try/except of its own)
TestServiceConnectivity ==
    /\ script = "comprehensive" /\ pc = "c_connectivity"
    /\ \/ /\ StageRaises("c_connectivity", "goto")  \* goto of /admin raises
          /\ UNCHANGED <<analysis_results, stagesDone, loopVars>>
       \/ /\ StageRaises("c_connectivity", "query") \* page.evaluate raises
          /\ UNCHANGED <<analysis_results, stagesDone, loopVars>>
       \/ \E firebase_status \in {"not_loaded", "loaded"} :
          /\ Spend(Cost(firebase_status # "not_loaded"))
          /\ analysis_results' =
                [analysis_results EXCEPT !.service_connectivity =
                    [firebase_auth |-> firebase_status,
                     api_calls |-> <<>>,
                     errors |-> <<>>,
                     loading_times |-> [admin_page |-> 1]]]
          /\ StageReturns("c_connectivity")
          /\ UNCHANGED excVars
    /\ UNCHANGED <<otherVars, appVars, script, navs, browserVars, admin_analysis, platVars, fileVars,
                   exitCode, probe>>

\* a comparison that looks for missing variables only
page_gap_MissingOnly(page_path, main_vars, admin_vars) ==
    LET missing_vars == (DOMAIN main_vars) \ (DOMAIN admin_vars)
    IN  IF missing_vars # {}
        THEN << [page |-> page_path,
                 type |-> "css_variables",
                 missing_variables |-> missing_vars,
                 different_values |-> EmptyDict] >>
        ELSE <<>>

\* the gap compare_designs reports for one admin page, <<>> when none
page_gap(page_path, main_vars, admin_vars) ==
    LET missing_vars == (DOMAIN main_vars) \ (DOMAIN admin_vars)
        differing == {v \in (DOMAIN main_vars) \cap (DOMAIN admin_vars) :
                         main_vars[v] # admin_vars[v]}
        different_values ==
            [v \in differing |->
                [main_app |-> main_vars[v], admin_page |-> admin_vars[v]]]
    IN  IF missing_vars # {} \/ differing # {}
        THEN << [page |-> page_path,
                 type |-> "css_variables",
                 missing_variables |-> missing_vars,
                 different_values |-> different_values] >>
        ELSE <<>>

\* the loop of compare_designs over admin_pages.items(), from the i-th key
\* on; the dict holds its keys in the order the loop over admin_pages set them
RECURSIVE gaps_from(_, _, _)
gaps_from(i, main_tokens, pages) ==
    IF i > Len(admin_pages) THEN <<>>
    ELSE LET page_path == admin_pages[i]
         IN  (IF page_path \in DOMAIN pages
                 /\ "design_tokens" \in DOMAIN pages[page_path]
              THEN page_gap(page_path,
                            Get(main_tokens, "cssVariables", EmptyDict),
                            Get(pages[page_path].design_tokens,
                                "cssVariables", EmptyDict))
              ELSE <<>>)
             \o gaps_from(i + 1, main_tokens, pages)

compare_designs(main_app_data, admin_data) ==
    gaps_from(1, Get(main_app_data, "design_tokens", EmptyDict),
                 Get(admin_data, "pages", EmptyDict))

\* stage 4: compare_designs on the two results collected so far
CompareDesigns ==
    /\ script = "comprehensive" /\ pc = "c_compare"
    /\ Spend(0)
    /\ analysis_results' =
          [analysis_results EXCEPT !.design_gaps =
              compare_designs(analysis_results.main_app,
                              analysis_results.admin_interface)]
    /\ StageReturns("c_compare")
    /\ UNCHANGED <<otherVars, appVars, script, navs, browserVars, admin_analysis, platVars, fileVars,
                   exitCode, probe, excVars>>

\* stage 5, first half: makedirs, open(report_path, 'w'), json.dump
GenerateReportJson ==
    /\ script = "comprehensive" /\ pc = "c_report"
    /\ \/ /\ StageRaises("c_report", "write")  \* the file cannot be written
          /\ UNCHANGED jsonWrites
       \/ /\ Spend(0)
          /\ jsonWrites' = jsonWrites + 1
          /\ pc' = "c_report_md"
          /\ UNCHANGED excVars
    /\ UNCHANGED <<otherVars, appVars, script, navs, loopVars, browserVars, compVars, platVars, mdWrites,
                   screenshots, exitCode, probe, stagesDone>>

\* stage 5, second half: the Markdown summary, then return report_path
GenerateReportMarkdown ==
    /\ script = "comprehensive" /\ pc = "c_report_md"
    /\ \/ /\ StageRaises("c_report", "write")  \* the summary cannot be written
          /\ UNCHANGED <<mdWrites, stagesDone, loopVars>>
       \/ /\ Spend(0)
          /\ mdWrites' = mdWrites + 1
          /\ StageReturns("c_report")
          /\ UNCHANGED excVars
    /\ UNCHANGED <<otherVars, appVars, script, navs, browserVars, compVars, platVars, jsonWrites,
                   screenshots, exitCode, probe>>

(***************************************************************************)
(* analyze_platform.py                                                     *)
(***************************************************************************)
\* stage 1: analyze_login_page (no try/except of its own)
AnalyzeLoginPage ==
    /\ script = "platform" /\ pc = "p_login"
    /\ \/ /\ StageRaises("p_login", "goto")        \* page.goto raises
          /\ UNCHANGED <<screenshots, results, stagesDone, loopVars>>
       \/ /\ StageRaises("p_login", "query")       \* page.screenshot raises
          /\ UNCHANGED <<screenshots, results, stagesDone, loopVars>>
       \/ /\ Spend(0)
          /\ screenshots' = screenshots \cup {<<"login_detailed", "">>}
          /\ results' =
                [results EXCEPT !.login_page =
                    [security_features |-> <<>>, ux_issues |-> <<>>,
                     missing_features |-> <<>>, strengths |-> <<>>]]
          /\ StageReturns("p_login")
          /\ UNCHANGED excVars
    /\ UNCHANGED <<otherVars, appVars, script, navs, browserVars, compVars, app_analysis,
                   public_analysis, jsonWrites, mdWrites, exitCode, probe>>

\* end of one iteration of the loop over urls_to_check
AppIterationEnds(how) ==
    /\ probe' = EndProbe("p_app", cur, how)
    /\ cur' = IndexAfter(cur, how)
    /\ pc' = "p_app"

\* stage 2: analyze_main_application; page.goto, page.url, page.title, the
\* test of the URL and the append to accessible_pages; the except block only
\* prints
PlatformAppGoto ==
    /\ script = "platform" /\ pc = "p_app"
    /\ cur \in 1..Len(urls_to_check)
    /\ \/ /\ Spend(1)                         \* page.goto raises
          /\ AppIterationEnds("failed")
          /\ UNCHANGED <<app_analysis, landed>>
       \/ \E current_url \in LandingUrls(urls_to_check[cur]) :
          /\ Spend(Cost(current_url # path_of(urls_to_check[cur])))
          /\ landed' = [landed EXCEPT ![cur] = <<current_url>>]
          /\ IF contains(lower(current_url), LoginWord)
             THEN /\ AppIterationEnds("skipped")
                  /\ UNCHANGED app_analysis
             ELSE /\ app_analysis' =
                        [app_analysis EXCEPT !.accessible_pages =
                            Append(@, [url |-> urls_to_check[cur],
                                       final_url |-> current_url,
                                       title |-> "EllaAI"])]
                  /\ probe' = StartProbe("p_app", cur)
                  /\ pc' = "p_app_shot"
                  /\ UNCHANGED cur
    /\ navs' = Navigate("p_app", cur)
    /\ UNCHANGED <<otherVars, extracted, nav_items, per_selector, script,
                   response, shot, browserVars, compVars, public_analysis,
                   results, fileVars, exitCode, stagesDone, excVars>>

\* page.screenshot of an accessible page
PlatformAppScreenshot ==
    /\ script = "platform" /\ pc = "p_app_shot"
    /\ \/ /\ Spend(1)                         \* page.screenshot raises
          /\ AppIterationEnds("failed")
          /\ UNCHANGED screenshots
       \/ /\ Spend(0)
          /\ screenshots' = screenshots \cup {<<"app", urls_to_check[cur]>>}
          /\ pc' = "p_app_nav"
          /\ UNCHANGED <<cur, probe>>
    /\ UNCHANGED <<otherVars, appVars, script, navs, response, shot,
                   browserVars, compVars, platVars, jsonWrites, mdWrites,
                   exitCode, stagesDone, excVars>>

\* nav_items = extract_navigation_items(page) on a page of one of the
\* layouts, and the extend of navigation_structure
PlatformAppExtract(layouts) ==
    /\ script = "platform" /\ pc = "p_app_nav"
    /\ \E layout \in layouts :
          /\ Spend(0)
          /\ nav_items' = extract_navigation_items(layout)
          /\ per_selector' =
                [s \in 1..Len(selectors) |-> Len(selector_items(layout[s]))]
          /\ extracted' = extracted \cup {cur}
          /\ app_analysis' =
                IF nav_items' # <<>>
                THEN [app_analysis EXCEPT !.navigation_structure = @ \o nav_items']
                ELSE app_analysis
          /\ AppIterationEnds("done")
    /\ UNCHANGED <<otherVars, landed, script, navs, response, shot,
                   browserVars, compVars, public_analysis, results, fileVars,
                   exitCode, stagesDone, excVars>>

\* infer_admin_requirements, results["main_application"] = app_analysis
PlatformAppReturn ==
    /\ script = "platform" /\ pc = "p_app"
    /\ cur > Len(urls_to_check)
    /\ Spend(0)
    /\ app_analysis' =
          [app_analysis EXCEPT !.missing_admin_features = <<"admin_features">>]
    /\ results' = [results EXCEPT !.main_application = app_analysis']
    /\ StageReturns("p_app")
    /\ UNCHANGED <<otherVars, appVars, script, navs, browserVars, compVars, public_analysis, fileVars,
                   exitCode, probe, excVars>>

\* stage 3: check_public_pages
accessible_entry(url) == [url |-> url, title |-> "EllaAI", accessible |-> TRUE]

\* the entry the except block appends
inaccessible_entry(url, e) == [url |-> url, accessible |-> FALSE, error |-> e]

\* except Exception as e: public_analysis["accessible_content"].append({...})
PublicExcept(content, url, e) == Append(content, inaccessible_entry(url, e))

\* end of one iteration of the loop over public_urls
PublicIterationEnds(how) ==
    /\ probe' = EndProbe("p_pub", cur, how)
    /\ cur' = IndexAfter(cur, how)
    /\ pc' = "p_pub"

\* page.goto, the test of page.url and the append of the accessible entry
PublicGoto ==
    /\ script = "platform" /\ pc = "p_pub"
    /\ cur \in 1..Len(public_urls)
    /\ \/ /\ Spend(1)                         \* page.goto raises
          /\ public_analysis' =
                [public_analysis EXCEPT !.accessible_content =
                    PublicExcept(@, public_urls[cur], ErrorText)]
          /\ PublicIterationEnds("failed")
       \/ /\ Spend(1)                         \* 'login' in page.url.lower()
          /\ PublicIterationEnds("skipped")
          /\ UNCHANGED public_analysis
       \/ /\ Spend(0)
          /\ public_analysis' =
                [public_analysis EXCEPT !.accessible_content =
                    Append(@, accessible_entry(public_urls[cur]))]
          /\ probe' = StartProbe("p_pub", cur)
          /\ pc' = "p_pub_text"
          /\ UNCHANGED cur
    /\ navs' = Navigate("p_pub", cur)
    /\ UNCHANGED <<otherVars, appVars, script, response, shot, browserVars, compVars, app_analysis,
                   results, fileVars, exitCode, stagesDone, excVars>>

\* page.inner_text('body') and the search for admin/manage in it
PublicInnerText ==
    /\ script = "platform" /\ pc = "p_pub_text"
    /\ \/ /\ Spend(1)                         \* page.inner_text raises
          /\ public_analysis' =
                [public_analysis EXCEPT !.accessible_content =
                    PublicExcept(@, public_urls[cur], ErrorText)]
          /\ PublicIterationEnds("failed")
       \/ \E mentions_admin \in BOOLEAN :
          /\ Spend(Cost(mentions_admin))
          /\ public_analysis' =
                IF mentions_admin
                THEN [public_analysis EXCEPT !.platform_insights =
                        Append(@, [url |-> public_urls[cur],
                                   insight |-> "Contains admin/management references"])]
                ELSE public_analysis
          /\ PublicIterationEnds("done")
    /\ UNCHANGED <<otherVars, appVars, script, navs, response, shot, browserVars, compVars, app_analysis,
                   results, fileVars, exitCode, stagesDone, excVars>>

\* results["public_pages"] = public_analysis
PublicReturn ==
    /\ script = "platform" /\ pc = "p_pub"
    /\ cur > Len(public_urls)
    /\ Spend(0)
    /\ results' = DictSet(results, "public_pages", public_analysis)
    /\ StageReturns("p_pub")
    /\ UNCHANGED <<otherVars, appVars, script, navs, browserVars, compVars, app_analysis,
                   public_analysis, fileVars, exitCode, probe, excVars>>

\* stage 4: generate_report: the prints, makedirs, open(..., 'w'), json.dump
PlatformGenerateReport ==
    /\ script = "platform" /\ pc = "p_report"
    /\ \/ /\ StageRaises("p_report", "write")  \* the file cannot be written
          /\ UNCHANGED <<jsonWrites, stagesDone, loopVars>>
       \/ /\ Spend(0)
          /\ jsonWrites' = jsonWrites + 1
          /\ StageReturns("p_report")
          /\ UNCHANGED excVars
    /\ UNCHANGED <<otherVars, appVars, script, navs, browserVars, compVars, platVars, mdWrites,
                   screenshots, exitCode, probe>>

(***************************************************************************)
(* analyze_admin.py: one stage, the try block of analyze_ellaai_admin      *)
(***************************************************************************)
\* page.goto, time.sleep, page.title, page.url
AdminScriptGoto ==
    /\ script = "admin" /\ pc = "a_page"
    /\ \/ StageRaises("a_page", "goto")       \* page.goto raises
       \/ /\ Spend(0)
          /\ pc' = "a_shot"
          /\ UNCHANGED excVars
    /\ UNCHANGED <<otherVars, appVars, script, navs, loopVars, browserVars, compVars, platVars, fileVars,
                   exitCode, probe, stagesDone>>

\* the full-page screenshot of the admin page
AdminScriptScreenshot ==
    /\ script = "admin" /\ pc = "a_shot"
    /\ \/ /\ StageRaises("a_page", "query")   \* page.screenshot raises
          /\ UNCHANGED screenshots
       \/ /\ Spend(0)
          /\ screenshots' = screenshots \cup {<<"admin_homepage", "">>}
          /\ pc' = "a_branch"
          /\ UNCHANGED excVars
    /\ UNCHANGED <<otherVars, appVars, script, navs, loopVars, browserVars, compVars, platVars,
                   jsonWrites, mdWrites, exitCode, probe, stagesDone>>

\* if 'login' in url.lower() or 'auth' in url.lower(): ... else: ...
AdminScriptBranch ==
    /\ script = "admin" /\ pc = "a_branch"
    /\ \/ /\ StageRaises("a_page", "query")   \* a screenshot or a query raises
          /\ UNCHANGED <<screenshots, stagesDone, loopVars>>
       \/ /\ Spend(1)                         \* redirected to the login page
          /\ screenshots' = screenshots \cup {<<"login_page", "">>}
          /\ StageReturns("a_page")
          /\ UNCHANGED excVars
       \/ /\ Spend(0)                         \* the three analyze_* functions
          /\ StageReturns("a_page")
          /\ UNCHANGED <<excVars, screenshots>>
    /\ UNCHANGED <<otherVars, appVars, script, navs, browserVars, compVars, platVars, jsonWrites,
                   mdWrites, exitCode, probe>>

(***************************************************************************)
(* except, finally and the process boundary.                               *)
(***************************************************************************)
\* browser.close() as the last statement of the except block instead of in
\* a finally clause: an exception raised in the block skips it
AfterHandler_NoFinally(handlerRaises) ==
    IF handlerRaises THEN "boundary" ELSE "finally"

\* where control goes when the except block is left, normally or by an
\* exception (handlerRaises): the finally clause runs in both cases
AfterHandler(handlerRaises) == "finally"

\* except Exception as e: of the try statement of each script
Handler ==
    /\ pc = "handler"
    /\ \/ /\ script = "comprehensive"         \* print, raise
          /\ Spend(0)
          /\ raised' = TRUE
          /\ UNCHANGED screenshots
       \/ /\ script = "platform"              \* print
          /\ Spend(0)
          /\ raised' = FALSE
          /\ UNCHANGED screenshots
       \/ /\ script = "admin"                 \* print, error_page.png written
          /\ Spend(0)
          /\ raised' = FALSE
          /\ screenshots' = screenshots \cup {<<"error_page", "">>}
       \/ /\ script = "admin"                 \* print, page.screenshot raises
          /\ Spend(1)
          /\ raised' = TRUE
          /\ UNCHANGED screenshots
    /\ pc' = AfterHandler(raised')
    /\ UNCHANGED <<otherVars, appVars, script, navs, loopVars, browserVars, compVars, platVars,
                   jsonWrites, mdWrites, exitCode, probe, stagesDone,
                   failedStage, failKind>>

\* finally: browser.close()
Finally ==
    /\ pc = "finally"
    /\ Spend(0)
    /\ browser' = "closed"
    /\ closeCalls' = closeCalls + 1
    /\ pc' = "boundary"
    /\ UNCHANGED <<otherVars, appVars, script, navs, loopVars, compVars, platVars, fileVars, exitCode,
                   probe, stagesDone, excVars>>

\* a main() whose except block prints the error and returns
ExitCode_Swallowed(s, exc) == 0

\* main() of the comprehensive script calls sys.exit(1) on an exception; in
\* the other two scripts an exception that leaves the function ends the
\* interpreter with status 1
ExitCode(s, exc) == IF exc THEN 1 ELSE 0

ProcessExit ==
    /\ pc = "boundary"
    /\ Spend(0)
    /\ exitCode' = ExitCode(script, raised)
    /\ pc' = "done"
    /\ UNCHANGED <<otherVars, appVars, script, navs, loopVars, browserVars, compVars, platVars, fileVars,
                   probe, stagesDone, excVars>>

(***************************************************************************)
(* Specification.                                                          *)
(***************************************************************************)
Next ==
    \/ Launch
    \/ AnalyzeMainApplication
    \/ AdminGoto
    \/ AdminScreenshot
    \/ AdminAnalyze
    \/ AdminReturn
    \/ TestServiceConnectivity
    \/ CompareDesigns
    \/ GenerateReportJson
    \/ GenerateReportMarkdown
    \/ AnalyzeLoginPage
    \/ PlatformAppGoto
    \/ PlatformAppScreenshot
    \/ PlatformAppExtract(NominalLayouts)
    \/ PlatformAppReturn
    \/ PublicGoto
    \/ PublicInnerText
    \/ PublicReturn
    \/ PlatformGenerateReport
    \/ AdminScriptGoto
    \/ AdminScriptScreenshot
    \/ AdminScriptBranch
    \/ Handler
    \/ Finally
    \/ ProcessExit

Spec == Init /\ [][Next]_vars

(***************************************************************************)
(* Vocabulary of the properties.                                           *)
(***************************************************************************)
AdminPaths == {admin_pages[i] : i \in 1..Len(admin_pages)}

Finished == {"done", "skipped", "failed"}

LoopsOf(s) ==
    CASE s = "comprehensive" -> {"c_admin"}
      [] s = "platform"      -> {"p_app", "p_pub"}
      [] s = "admin"         -> {}

\* every target of every loop of the running script has been probed
AllProbed ==
    \A l \in LoopsOf(script) : \A i \in 1..Len(TargetList(l)) :
        probe[l][i] \in Finished

\* the entries the report under construction holds for target i of loop l
EntriesOf(l, i) ==
    CASE l = "c_admin" ->
            IF admin_pages[i] \in DOMAIN admin_analysis.pages
            THEN {admin_analysis.pages[admin_pages[i]]} ELSE {}
      [] l = "p_app" ->
            {app_analysis.accessible_pages[k] :
                k \in {k \in 1..Len(app_analysis.accessible_pages) :
                          app_analysis.accessible_pages[k].url = urls_to_check[i]}}
      [] l = "p_pub" ->
            {public_analysis.accessible_content[k] :
                k \in {k \in 1..Len(public_analysis.accessible_content) :
                          public_analysis.accessible_content[k].url = public_urls[i]}}

AllStages(s) == {StageOrder(s)[n] : n \in 1..Len(StageOrder(s))}

\* the stage that writes the report ("none" in analyze_admin, which has none)
ReportStage(s) ==
    CASE s = "comprehensive" -> "c_report"
      [] s = "platform"      -> "p_report"
      [] s = "admin"         -> "none"

(***************************************************************************)
(* C1                                                                      *)
(***************************************************************************)
\* C1: the pages mapping analyze_admin_interface returns holds exactly one
\* entry for each of the six admin paths, whichever probes returned or
\* raised; while the loop runs it holds one entry for each path already
\* visited and none for the others.
C1_OneEntryPerAdminPath ==
    /\ (script = "comprehensive" /\ pc \in {"c_admin", "c_admin_shot", "c_admin_analyze"})
          => DOMAIN admin_analysis.pages = {admin_pages[i] : i \in 1..(cur - 1)}
    /\ "c_admin" \in stagesDone
          => /\ DOMAIN analysis_results.admin_interface.pages = AdminPaths
             /\ Cardinality(DOMAIN analysis_results.admin_interface.pages) = 6

\* the loop has returned with a page whose probe raised and a page whose
\* probe ran to its end
C1_Witness ==
    /\ "c_admin" \in stagesDone
    /\ \E p, q \in DOMAIN analysis_results.admin_interface.pages :
          /\ "error" \in DOMAIN analysis_results.admin_interface.pages[p]
          /\ "is_error" \in DOMAIN analysis_results.admin_interface.pages[q]

(***************************************************************************)
(* C2                                                                      *)
(***************************************************************************)
\* C2: in each of the three per-target loops, a target whose probe raised
\* has an entry in the report that carries a string "error" field, and the
\* loop has moved on to the next target.
C2_FailureRecordedInEveryLoop ==
    \A l \in Loops : \A i \in 1..Len(TargetList(l)) :
        probe[l][i] = "failed"
           => /\ \E e \in EntriesOf(l, i) :
                    "error" \in DOMAIN e /\ e.error = ErrorText
              /\ (pc = l => cur > i)

(***************************************************************************)
(* C3                                                                      *)
(***************************************************************************)
\* C3: a run whose stages were left by no exception other than a navigation
\* failure is not aborted: when it ends every target of its loops has been
\* probed and the report has been written.
C3_NavigationFailureNeverAborts ==
    (pc = "done" /\ script # "admin" /\ browser # "none"
        /\ failKind \in {"none", "goto"})
       => (AllProbed /\ jsonWrites >= 1)

(***************************************************************************)
(* C4                                                                      *)
(***************************************************************************)
\* C4: the entry of an admin page whose navigation returned a status code
\* >= 400 has its error field set and hasContent equal to false.
C4_HttpErrorHasNoContent ==
    \A p \in DOMAIN admin_analysis.pages :
        LET e == admin_analysis.pages[p]
        IN  ("status_code" \in DOMAIN e /\ e.status_code >= 400)
               => (e.is_error /\ ~e.page_analysis.hasContent)

(***************************************************************************)
(* C5                                                                      *)
(***************************************************************************)
\* an entry with isError = true and a non-empty error message
IsErrorWithMessage(e) ==
    /\ "is_error" \in DOMAIN e /\ e.is_error
    /\ "error" \in DOMAIN e /\ e.error # ""

\* C5: every admin page that loaded has is_error = false in its entry, and
\* every admin page whose probe failed (a status >= 400 or a not-found page,
\* both flagged by is_error, or an exception) has is_error = true together
\* with a non-empty error message.
C5_IsErrorMatchesOutcome ==
    \A i \in 1..Len(admin_pages) : \A e \in EntriesOf("c_admin", i) :
        /\ probe["c_admin"][i] = "failed" => IsErrorWithMessage(e)
        /\ probe["c_admin"][i] = "done"
              => /\ "is_error" \in DOMAIN e
                 /\ e.is_error => IsErrorWithMessage(e)

C7_ExitCodeOfComprehensive ==
    (script = "comprehensive" /\ pc = "done")
       => /\ exitCode = 0 <=> stagesDone = AllStages("comprehensive")
          /\ failedStage # "none" => exitCode # 0

\* a run of the comprehensive script in which a page's probe raised and
\* which still exits with code 0 after its five stages
C7_Witness ==
    /\ script = "comprehensive" /\ pc = "done" /\ exitCode = 0
    /\ Cardinality(stagesDone) = 5
    /\ \E i \in 1..Len(admin_pages) : probe["c_admin"][i] = "failed"

(***************************************************************************)
(* C8                                                                      *)
(***************************************************************************)
\* C8: in every script that writes a report, a failure to write the report
\* ends the process with a non-zero exit code.
C8_ReportFailureExitsNonZero ==
    (pc = "done" /\ failKind = "write") => exitCode # 0

(***************************************************************************)
(* C9                                                                      *)
(***************************************************************************)
\* the screenshot file of target i of loop l
ShotOf(l, i) ==
    CASE l = "c_admin" -> <<"admin", admin_pages[i]>>
      [] l = "p_app"   -> <<"app", urls_to_check[i]>>
      [] l = "p_pub"   -> <<"pub", public_urls[i]>>

\* C9: targets are probed one at a time in list order: a step of a target
\* (its navigation, its screenshot, the recording of an entry for it, the
\* end of its probe) is taken only when every earlier target of the list is
\* finished and no later target has been started, and a finished target is
\* never touched again.
C9_StrictlySequential ==
    [][\A l \in Loops : \A t \in 1..Len(TargetList(l)) :
          (probe'[l][t] # probe[l][t]
             \/ (ShotOf(l, t) \in screenshots' /\ ShotOf(l, t) \notin screenshots)
             \/ Cardinality(EntriesOf(l, t)') # Cardinality(EntriesOf(l, t)))
          => /\ probe[l][t] \in {"pending", "active"}
             /\ \A u \in 1..(t - 1) : probe[l][u] \in Finished
             /\ \A u \in (t + 1)..Len(TargetList(l)) :
                   probe[l][u] = "pending" /\ probe'[l][u] = "pending"]_vars

\* the second admin page is being probed after the probe of the first raised
C9_Witness ==
    /\ probe["c_admin"][1] = "failed"
    /\ probe["c_admin"][2] = "active"
    /\ pc = "c_admin_analyze"

EntryKeysOfNominalRun == DOMAIN page_entry(<<>>, 200, FALSE, 150)

\* C11: two runs over the same targets that both write a report produce
\* reports with the same key sets, whatever the outcomes of the runs were.
\* One of the two runs may be the run in which every call returns, so the
\* key sets of every written report are those of that run: the six top-level
\* keys, the six admin paths under admin_interface.pages, and inside each
\* path's entry the keys of the entry of a page analysed to its end.
C11_SameKeySetsInEveryRun ==
    (script = "comprehensive" /\ jsonWrites >= 1)
       => /\ DOMAIN analysis_results =
                {"timestamp", "main_app", "admin_interface", "design_analysis",
                 "service_connectivity", "design_gaps"}
          /\ DOMAIN analysis_results.admin_interface.pages = AdminPaths
          /\ \A p \in AdminPaths :
                DOMAIN analysis_results.admin_interface.pages[p]
                   = EntryKeysOfNominalRun

(***************************************************************************)
(* C12: json.dump of the report and the parse of what it wrote.            *)
(***************************************************************************)
\* Python values by type, as json.dump tells them apart
PyStr(s) == [t |-> "str", v |-> s]

PyInt(n) == [t |-> "int", v |-> n]

PyFloat(x) == [t |-> "float", v |-> x]

PyBool(b) == [t |-> "bool", v |-> b]

PyList(items) == [t |-> "list", v |-> items]

PyDict(d) == [t |-> "dict", v |-> d]

\* an object of any other type (a datetime, a set, ...); v stands for str(o)
PyObj(r) == [t |-> "object", v |-> r]

\* json.dump(o, f, default=str) when default_str, json.dump(o, f) otherwise:
\* the JSON document written.  An object of another type is written as the
\* string str(o) when default=str is given; without it json.dump raises
\* TypeError and the document is not completed.
RECURSIVE json_dump(_, _)
json_dump(o, default_str) ==
    CASE o.t = "str"   -> [t |-> "string", v |-> o.v]
      [] o.t = "int"   -> [t |-> "number", v |-> o.v, fraction |-> FALSE]
      [] o.t = "float" -> [t |-> "number", v |-> o.v, fraction |-> TRUE]
      [] o.t = "bool"  -> [t |-> "literal", v |-> o.v]
      [] o.t = "list"  ->
            [t |-> "array",
             v |-> [i \in DOMAIN o.v |-> json_dump(o.v[i], default_str)]]
      [] o.t = "dict"  ->
            [t |-> "object",
             v |-> [k \in DOMAIN o.v |-> json_dump(o.v[k], default_str)]]
      [] OTHER ->
            IF default_str THEN [t |-> "string", v |-> o.v]
                           ELSE [t |-> "TypeError", v |-> o.v]

\* json.load of a document: the Python value the parser builds
RECURSIVE json_load(_)
json_load(j) ==
    CASE j.t = "string"  -> PyStr(j.v)
      [] j.t = "number"  -> IF j.fraction THEN PyFloat(j.v) ELSE PyInt(j.v)
      [] j.t = "literal" -> PyBool(j.v)
      [] j.t = "array"   -> PyList([i \in DOMAIN j.v |-> json_load(j.v[i])])
      [] j.t = "object"  -> PyDict([k \in DOMAIN j.v |-> json_load(j.v[k])])
      [] OTHER -> j

\* the values the scripts store, by the type the statement that stores them
\* gives them
str_list(items) == PyList([i \in DOMAIN items |-> PyStr(items[i])])

str_dict(d) == PyDict([k \in DOMAIN d |-> PyStr(d[k])])

\* a timestamp kept as the datetime object
timestamp_value_Datetime(ts) == PyObj(ts)

\* datetime.now().isoformat()
timestamp_value(ts) == PyStr(ts)

\* list(missing_vars): the elements of the set in the order Python iterates it
RECURSIVE list_of_set(_)
list_of_set(S) ==
    IF S = {} THEN <<>>
    ELSE LET x == CHOOSE x \in S : TRUE
         IN  <<x>> \o list_of_set(S \ {x})

design_tokens_value(tok) ==
    PyDict([cssVariables |-> str_dict(tok.cssVariables),
            elementStyles |-> PyDict(tok.elementStyles)])

main_app_value(m) ==
    PyDict([screenshot_path |-> PyStr(m.screenshot_path),
            page_structure |-> str_dict(m.page_structure),
            design_tokens |-> design_tokens_value(m.design_tokens),
            is_login_page |-> PyBool(m.is_login_page),
            timestamp |-> timestamp_value(m.timestamp)])

page_value(e) ==
    IF "error" \in DOMAIN e
    THEN str_dict(e)
    ELSE PyDict([screenshot_path |-> PyStr(e.screenshot_path),
                 status_code |-> PyInt(e.status_code),
                 is_error |-> PyBool(e.is_error),
                 page_analysis |->
                    PyDict([hasContent |-> PyBool(e.page_analysis.hasContent)]),
                 functionality_test |-> PyDict(e.functionality_test),
                 design_tokens |-> design_tokens_value(e.design_tokens)])

admin_interface_value(a) ==
    PyDict([pages |-> PyDict([p \in DOMAIN a.pages |-> page_value(a.pages[p])]),
            navigation_structure |-> PyDict(a.navigation_structure),
            connectivity_issues |-> PyList(a.connectivity_issues),
            functionality_tests |-> PyDict(a.functionality_tests)])

service_connectivity_value(c) ==
    PyDict([firebase_auth |-> PyStr(c.firebase_auth),
            api_calls |-> PyList(c.api_calls),
            errors |-> PyList(c.errors),
            loading_times |->
               PyDict([admin_page |-> PyFloat(c.loading_times.admin_page)])])

gap_value(g) ==
    PyDict([page |-> PyStr(g.page),
            type |-> PyStr(g.type),
            missing_variables |-> str_list(list_of_set(g.missing_variables)),
            different_values |->
               PyDict([v \in DOMAIN g.different_values |->
                          str_dict(g.different_values[v])])])

\* self.analysis_results of the comprehensive script
comprehensive_report_value ==
    PyDict([timestamp |-> timestamp_value(analysis_results.timestamp),
            main_app |-> main_app_value(analysis_results.main_app),
            admin_interface |->
               admin_interface_value(analysis_results.admin_interface),
            design_analysis |-> PyDict(analysis_results.design_analysis),
            service_connectivity |->
               service_connectivity_value(analysis_results.service_connectivity),
            design_gaps |->
               PyList([i \in DOMAIN analysis_results.design_gaps |->
                          gap_value(analysis_results.design_gaps[i])])])

\* an entry of accessible_pages, accessible_content or platform_insights
platform_entry_value(e) ==
    PyDict([k \in DOMAIN e |->
               IF k = "accessible" THEN PyBool(e[k]) ELSE PyStr(e[k])])

entry_list(items) ==
    PyList([i \in DOMAIN items |-> platform_entry_value(items[i])])

\* results of analyze_platform
platform_report_value ==
    PyDict([login_page |->
               PyDict([k \in DOMAIN results.login_page |->
                          str_list(results.login_page[k])]),
            main_application |->
               PyDict([accessible_pages |->
                          entry_list(results.main_application.accessible_pages),
                       navigation_structure |->
                          entry_list(results.main_application.navigation_structure),
                       inferred_features |->
                          str_list(results.main_application.inferred_features),
                       missing_admin_features |->
                          str_list(results.main_application.missing_admin_features)]),
            recommendations |->
               PyDict([k \in DOMAIN results.recommendations |->
                          str_list(results.recommendations[k])]),
            public_pages |->
               PyDict([accessible_content |->
                          entry_list(results.public_pages.accessible_content),
                       platform_insights |->
                          entry_list(results.public_pages.platform_insights)])])

C13_ScreenshotForEveryTarget ==
    \A l \in Loops : \A i \in 1..Len(TargetList(l)) :
        probe[l][i] \in Finished => ShotOf(l, i) \in screenshots

(***************************************************************************)
(* C14                                                                     *)
(***************************************************************************)
\* the number of entries of a list that carry the URL url
EntryCount(entries, url) ==
    Cardinality({k \in 1..Len(entries) : entries[k].url = url})

\* C14: in analyze_platform each URL of urls_to_check has at most one entry
\* in accessible_pages and each URL of public_urls has at most one entry in
\* accessible_content, on every path through the loop body, the path on
\* which a call raises after the URL's entry was appended included.
C14_AtMostOneEntryPerUrl ==
    /\ \A i \in 1..Len(urls_to_check) :
          EntryCount(app_analysis.accessible_pages, urls_to_check[i]) <= 1
    /\ \A i \in 1..Len(public_urls) :
          EntryCount(public_analysis.accessible_content, public_urls[i]) <= 1

(***************************************************************************)
(* C15                                                                     *)
(***************************************************************************)
\* C15: no loop retries: within its stage each target is navigated exactly
\* once.  page.goto is never called a second time for a target, it has been
\* called once for every target whose probe has started, and once for every
\* target of the list when the stage returns, whether the calls succeeded,
\* timed out or returned an error status.
C15_EachTargetNavigatedOnce ==
    \A l \in Loops : \A i \in 1..Len(TargetList(l)) :
        /\ navs[l][i] <= 1
        /\ probe[l][i] = "pending" <=> navs[l][i] = 0
        /\ l \in stagesDone => navs[l][i] = 1

\* check_public_pages has returned after probes that raised, that ended on
\* the login page and that ran to their end
C15_Witness ==
    /\ "p_pub" \in stagesDone
    /\ \E i, j, k \in 1..Len(public_urls) :
          /\ probe["p_pub"][i] = "failed"
          /\ probe["p_pub"][j] = "skipped"
          /\ probe["p_pub"][k] = "done"
    /\ \A i \in 1..Len(public_urls) : navs["p_pub"][i] = 1

(***************************************************************************)
(* C16                                                                     *)
(***************************************************************************)
generate_recommendations ==
    [critical |->
       << "Implement comprehensive user management dashboard with search, filter, and bulk operations",
          "Add system health monitoring and error alerting for proactive issue resolution",
          "Create audit logging system for compliance and security tracking",
          "Develop role-based access control (RBAC) interface for permission management",
          "Build company/tenant management system with usage analytics" >>,
     high_priority |->
       << "Add assessment management dashboard with performance analytics",
          "Implement API usage monitoring and rate limiting controls",
          "Create automated backup and disaster recovery management",
          "Build custom reporting and data export capabilities",
          "Add multi-factor authentication (MFA) and enterprise SSO support" >>,
     medium_priority |->
       << "Develop email template management for automated communications",
          "Create webhook configuration interface for integrations",
          "Add user activity tracking and engagement metrics",
          "Implement custom branding controls for white-label customers",
          "Build notification center for system alerts and updates" >>,
     low_priority |->
       << "Add dark mode support for admin interface",
          "Create mobile-responsive admin dashboard",
          "Implement advanced search with faceted filtering",
          "Add data visualization widgets for KPI monitoring",
          "Create onboarding flow for new admin users" >>]

\* the items generate_report prints under each priority: items[:5]
printed_recommendations ==
    [priority \in DOMAIN generate_recommendations |->
        LET items == generate_recommendations[priority]
        IN  SubSeq(items, 1, IF Len(items) < 5 THEN Len(items) ELSE 5)]

\* C16: the report analyze_platform has written holds the recommendations:
\* each list under its "recommendations" key holds the strings that
\* generate_report prints for that priority from generate_recommendations().
C16_ReportHoldsRecommendations ==
    (script = "platform" /\ jsonWrites >= 1)
       => /\ "recommendations" \in DOMAIN results
          /\ DOMAIN results.recommendations = DOMAIN printed_recommendations
          /\ \A priority \in DOMAIN printed_recommendations :
                results.recommendations[priority]
                   = printed_recommendations[priority]

(***************************************************************************)
(* test_service_connectivity, event by event.  The page issues requests    *)
(* and receives their responses at any time; from page.on on, each event   *)
(* runs its handler.  Time is counted in requests issued.                  *)
(***************************************************************************)
\* the URLs the page requests
Urls == {"/api/health", "/api/users"}

\* requests a run of the page issues at most, with their responses followed
MaxRequests == 3

\* requests a run of the page issues at most, their responses not followed
MaxBurst == 12

\* handle_request: the entry appended for the request issued at time t
request_entry(url, t) == [url |-> url, method |-> "GET", timestamp |-> t]

\* the first entry of the list with this URL, 0 when there is none
first_match(reqs, url) ==
    LET M == {k \in 1..Len(reqs) : reqs[k].url = url}
    IN  IF M = {} THEN 0 ELSE CHOOSE k \in M : \A j \in M : k <= j

\* handle_response: for req in network_requests: if req["url"] ==
\* response.url: set status and response_time, break
handle_response(reqs, url, status, t) ==
    LET k == first_match(reqs, url)
    IN  IF k = 0 THEN reqs
        ELSE [reqs EXCEPT ![k] =
                 [url |-> @.url, method |-> @.method, timestamp |-> @.timestamp,
                  status |-> status, response_time |-> t]]

\* the number of entries api_calls keeps
ApiCallsKept == 10

\* network_requests[:10]
api_calls_slice_First(reqs) ==
    [j \in 1..(IF Len(reqs) < ApiCallsKept THEN Len(reqs) ELSE ApiCallsKept)
        |-> j]

\* network_requests[-10:]: a new list of the same entry objects, kept as the
\* indices of the entries in network_requests
api_calls_slice(reqs) ==
    LET n == IF Len(reqs) < ApiCallsKept THEN Len(reqs) ELSE ApiCallsKept
    IN  [j \in 1..n |-> Len(reqs) - n + j]

\* page.on("request", ...), page.on("response", ...), then page.goto starts
RegisterHandlers ==
    /\ conn_pc = "start"
    /\ conn_pc' = "goto"
    /\ registeredAt' = Len(issued)
    /\ UNCHANGED <<network_requests, api_calls, issued, answered, returnedAt>>
    /\ UNCHANGED <<mainVars, cmpVars, formVars>>

\* the page issues a request; handle_request runs when it is registered
IssueRequest(max) ==
    /\ Len(issued) < max
    /\ \E url \in Urls :
          /\ issued' = Append(issued, url)
          /\ answered' = Append(answered, 0)
          /\ network_requests' =
                IF conn_pc = "start" THEN network_requests
                ELSE Append(network_requests,
                            request_entry(url, Len(issued) + 1))
    /\ UNCHANGED <<conn_pc, api_calls, registeredAt, returnedAt>>
    /\ UNCHANGED <<mainVars, cmpVars, formVars>>

\* the response to request id arrives; handle_response runs when it is
\* registered
DeliverResponse ==
    /\ \E id \in 1..Len(issued), status \in StatusCodes :
          /\ answered[id] = 0
          /\ answered' = [answered EXCEPT ![id] = status]
          /\ network_requests' =
                IF conn_pc = "start" THEN network_requests
                ELSE handle_response(network_requests, issued[id], status,
                                     Len(issued))
    /\ UNCHANGED <<conn_pc, api_calls, issued, registeredAt, returnedAt>>
    /\ UNCHANGED <<mainVars, cmpVars, formVars>>

\* page.goto returns: loading_times and api_calls are set
GotoReturns ==
    /\ conn_pc = "goto"
    /\ conn_pc' = "done"
    /\ api_calls' = api_calls_slice(network_requests)
    /\ returnedAt' = Len(issued)
    /\ UNCHANGED <<network_requests, issued, answered, registeredAt>>
    /\ UNCHANGED <<mainVars, cmpVars, formVars>>

InitConnectivity ==
    /\ MainInit /\ script = "comprehensive"
    /\ ConnectivityInit
    /\ CompareNotCalled
    /\ FormInit

NextResponses ==
    \/ RegisterHandlers
    \/ IssueRequest(MaxRequests)
    \/ DeliverResponse
    \/ GotoReturns

\* a few requests and their responses, in every interleaving
SpecResponses == InitConnectivity /\ [][NextResponses]_vars

NextApiCalls ==
    \/ RegisterHandlers
    \/ IssueRequest(MaxBurst)
    \/ GotoReturns

\* more requests than api_calls keeps, no response has arrived yet
SpecApiCalls == InitConnectivity /\ [][NextApiCalls]_vars

(***************************************************************************)
(* C17                                                                     *)
(***************************************************************************)
\* C17: in every interleaving of request and response events, each recorded
\* request whose response has arrived carries the status of its own
\* response, and a recorded request whose response has not arrived carries
\* none: with two requests for the same URL both get their status and
\* neither is overwritten by the other's response.
C17_EachRequestCarriesItsOwnStatus ==
    \A k \in 1..Len(network_requests) :
        LET req == network_requests[k]
            own == answered[req.timestamp]
        IN  IF own = 0
            THEN "status" \notin DOMAIN req
            ELSE "status" \in DOMAIN req /\ req.status = own

(***************************************************************************)
(* C20                                                                     *)
(***************************************************************************)
\* C20: api_calls holds at most 10 entries; they are the entries of the 10
\* most recently issued requests (of all of them when there are fewer) among
\* the requests issued from the registration of the handlers to the return
\* of page.goto, in issue order; a request issued before the handlers were
\* registered, or after page.goto returned, is not among them.
C20_ApiCallsAreTheLastTen ==
    /\ conn_pc # "done" => api_calls = <<>>
    /\ conn_pc = "done" =>
          LET recorded == returnedAt - registeredAt
              kept == IF recorded < ApiCallsKept THEN recorded ELSE ApiCallsKept
          IN  /\ Len(api_calls) = kept
              /\ Len(api_calls) <= 10
              /\ \A j \in 1..Len(api_calls) :
                    LET req == network_requests[api_calls[j]]
                    IN  /\ req.timestamp = returnedAt - kept + j
                        /\ req.timestamp > registeredAt
                        /\ req.url = issued[req.timestamp]

\* page.goto has returned after more than ten requests were recorded, one
\* request having been issued before the handlers were registered
C20_Witness ==
    /\ conn_pc = "done"
    /\ registeredAt >= 1
    /\ returnedAt - registeredAt > ApiCallsKept
    /\ Len(api_calls) = ApiCallsKept

(***************************************************************************)
(* C18: the Markdown summary.                                              *)
(***************************************************************************)
\* "Success" if not data.get("is_error") else "Error"; data.get returns None
\* for an entry without the key, and not None is True
format_status(data) ==
    IF ~Get(data, "is_error", FALSE) THEN "Success" ELSE "Error"

\* _format_admin_analysis: the lines written for each admin path
format_admin_analysis(pages) ==
    [path \in DOMAIN pages |->
        [status |-> format_status(pages[path]),
         has_content |->
            Get(Get(pages[path], "page_analysis", EmptyDict), "hasContent", FALSE),
         screenshot |-> Get(pages[path], "screenshot_path", "N/A")]]

\* C18: in the Markdown summary the comprehensive script has written, an
\* admin page whose probe raised is listed with status "Error" and never
\* with "Success", and a page is listed with "Success" only when its probe
\* ran to its end with is_error false.
C18_SummaryStatusMatchesOutcome ==
    (script = "comprehensive" /\ mdWrites >= 1)
       => LET pages == analysis_results.admin_interface.pages
              listed == format_admin_analysis(pages)
          IN  \A path \in DOMAIN pages :
                 /\ "error" \in DOMAIN pages[path]
                       => listed[path].status = "Error"
                 /\ listed[path].status = "Success"
                       => /\ "is_error" \in DOMAIN pages[path]
                          /\ ~pages[path].is_error

(***************************************************************************)
(* compare_designs as a function of its arguments.                         *)
(***************************************************************************)
\* CSS custom properties a page may define, and the values they may have
CssVariableNames == {"--primary", "--spacing"}

CssValues == {"#1976d2", "8px"}

\* the cssVariables maps extract_design_tokens may return
TokenMaps == UNION {[D -> CssValues] : D \in SUBSET CssVariableNames}

\* the admin pages, in list order, whose entries are drawn freely; the
\* entries of the pages after them are those of a probe that raised
MaxComparedPages == 2

\* the entries analyze_admin_interface may store for a page
PageEntries ==
    {failed_entry(ErrorText)}
       \cup {[page_entry(<<>>, 200, FALSE, 150) EXCEPT
                 !.design_tokens = design_tokens_of(v)] : v \in TokenMaps}

\* the values analyze_main_application may return, and the empty dict
MainAppValues ==
    {EmptyDict}
       \cup {[design_tokens |-> design_tokens_of(v), is_login_page |-> FALSE] :
                v \in TokenMaps}

InitCompare ==
    /\ MainInit /\ script = "comprehensive"
    /\ ConnectivityInit
    /\ FormInit
    /\ cmp_pc = "call"
    /\ cmp_main_app \in MainAppValues
    /\ \E drawn \in [1..MaxComparedPages -> PageEntries] :
          cmp_admin =
             [pages |->
                 [p \in AdminPaths |->
                     LET i == CHOOSE i \in 1..Len(admin_pages) : admin_pages[i] = p
                     IN  IF i <= MaxComparedPages THEN drawn[i]
                         ELSE failed_entry(ErrorText)],
              navigation_structure |-> EmptyDict,
              connectivity_issues |-> <<>>,
              functionality_tests |-> EmptyDict]
    /\ design_gaps = <<>>

\* design_gaps = await self.compare_designs(main_app_data, admin_data)
CallCompareDesigns ==
    /\ cmp_pc = "call"
    /\ design_gaps' = compare_designs(cmp_main_app, cmp_admin)
    /\ cmp_pc' = "returned"
    /\ UNCHANGED <<cmp_main_app, cmp_admin>>
    /\ UNCHANGED <<mainVars, connVars, formVars>>

NextCompare == CallCompareDesigns

SpecCompare == InitCompare /\ [][NextCompare]_vars

(***************************************************************************)
(* C19                                                                     *)
(***************************************************************************)
\* the gaps of the returned list that are about the page path
GapsOf(path) == {k \in 1..Len(design_gaps) : design_gaps[k].page = path}

\* C19: compare_designs returns at most one gap per admin page and none for
\* a page without design_tokens; for a page with design_tokens it returns a
\* gap exactly when some CSS variable of the main application is absent
\* from the page or has another value there; the gap's missing_variables is
\* the set of the main application's variables absent from the page, its
\* different_values holds exactly the variables present in both with unequal
\* values, each with the two values; identical maps yield no gap.
C19_GapsAreExactlyTheDifferences ==
    cmp_pc = "returned" =>
       LET main_vars ==
              Get(Get(cmp_main_app, "design_tokens", EmptyDict),
                  "cssVariables", EmptyDict)
       IN  /\ \A k \in 1..Len(design_gaps) : design_gaps[k].page \in AdminPaths
           /\ \A path \in AdminPaths :
                 LET data == cmp_admin.pages[path]
                 IN  /\ Cardinality(GapsOf(path)) <= 1
                     /\ "design_tokens" \notin DOMAIN data => GapsOf(path) = {}
                     /\ "design_tokens" \in DOMAIN data =>
                           LET admin_vars == data.design_tokens.cssVariables
                               missing ==
                                  {v \in DOMAIN main_vars : v \notin DOMAIN admin_vars}
                               differing ==
                                  {v \in DOMAIN main_vars :
                                      /\ v \in DOMAIN admin_vars
                                      /\ main_vars[v] # admin_vars[v]}
                           IN  /\ GapsOf(path) # {}
                                     <=> (missing # {} \/ differing # {})
                               /\ main_vars = admin_vars => GapsOf(path) = {}
                               /\ \A k \in GapsOf(path) :
                                     /\ design_gaps[k].missing_variables = missing
                                     /\ DOMAIN design_gaps[k].different_values
                                           = differing
                                     /\ \A v \in differing :
                                           design_gaps[k].different_values[v]
                                              = [main_app |-> main_vars[v],
                                                 admin_page |-> admin_vars[v]]

\* compare_designs has returned a gap with a missing variable and a variable
\* of another value for one page and no gap for a page whose variables are
\* those of the main application
C19_Witness ==
    /\ cmp_pc = "returned"
    /\ \E k \in 1..Len(design_gaps) :
          /\ design_gaps[k].missing_variables # {}
          /\ design_gaps[k].different_values # EmptyDict
    /\ \E path \in AdminPaths :
          /\ "design_tokens" \in DOMAIN cmp_admin.pages[path]
          /\ GapsOf(path) = {}

(***************************************************************************)
(* test_form_functionality, call by call.                                  *)
(***************************************************************************)
\* the largest number of elements a locator's count() returns
MaxCount == 3

\* f"error: {str(e)}"
error_string(e) == "error: " \o e

\* except Exception as e: functionality["submit_test"] = ...
FormExcept(f, e) == [f EXCEPT !.submit_test = error_string(e)]

\* a call of the try body raises: the except block, then the return statement
FormRaises(call) ==
    /\ functionality' = FormExcept(functionality, ErrorText)
    /\ form_raised' = call
    /\ form_pc' = "return"

\* validation_messages >= 0
has_validation_of_AtLeastZero(validation_messages) == validation_messages >= 0

\* functionality["has_validation"] = validation_messages > 0
has_validation_of(validation_messages) == validation_messages > 0

submit_test_of(validation_messages) ==
    IF validation_messages > 0 THEN "validation_works" ELSE "no_validation"

\* required_inputs = await page.locator('input[required], ...').count()
FormCountRequired ==
    /\ form_pc = "required"
    /\ \/ \E required_inputs \in 0..MaxCount :
             /\ functionality' =
                   [functionality EXCEPT !.required_fields = required_inputs]
             /\ form_pc' = "submit_count"
             /\ UNCHANGED form_raised
       \/ FormRaises("required")
    /\ UNCHANGED form_buttons
    /\ UNCHANGED <<mainVars, connVars, cmpVars>>

\* if await submit_button.count() > 0:
FormCountSubmit ==
    /\ form_pc = "submit_count"
    /\ \/ \E n \in 0..MaxCount :
             /\ form_buttons' = n
             /\ form_pc' = IF n > 0 THEN "click" ELSE "return"
             /\ UNCHANGED <<functionality, form_raised>>
       \/ /\ FormRaises("submit_count")
          /\ UNCHANGED form_buttons
    /\ UNCHANGED <<mainVars, connVars, cmpVars>>

\* await submit_button.first.click()
FormClick ==
    /\ form_pc = "click"
    /\ \/ /\ form_pc' = "wait"
          /\ UNCHANGED <<functionality, form_raised>>
       \/ FormRaises("click")
    /\ UNCHANGED form_buttons
    /\ UNCHANGED <<mainVars, connVars, cmpVars>>

\* await page.wait_for_timeout(1000)
FormWait ==
    /\ form_pc = "wait"
    /\ \/ /\ form_pc' = "validation"
          /\ UNCHANGED <<functionality, form_raised>>
       \/ FormRaises("wait")
    /\ UNCHANGED form_buttons
    /\ UNCHANGED <<mainVars, connVars, cmpVars>>

\* validation_messages = await page.locator('.error, ...').count() and the
\* two assignments that follow it
FormCountValidation ==
    /\ form_pc = "validation"
    /\ \/ \E validation_messages \in 0..MaxCount :
             /\ functionality' =
                   [functionality EXCEPT
                       !.has_validation = has_validation_of(validation_messages),
                       !.submit_test = submit_test_of(validation_messages)]
             /\ form_pc' = "return"
             /\ UNCHANGED form_raised
       \/ FormRaises("validation")
    /\ UNCHANGED form_buttons
    /\ UNCHANGED <<mainVars, connVars, cmpVars>>

\* return functionality
FormReturn ==
    /\ form_pc = "return"
    /\ form_pc' = "returned"
    /\ UNCHANGED <<functionality, form_buttons, form_raised>>
    /\ UNCHANGED <<mainVars, connVars, cmpVars>>

InitForm ==
    /\ MainInit /\ script = "comprehensive"
    /\ ConnectivityInit
    /\ CompareNotCalled
    /\ FormInit

NextForm ==
    \/ FormCountRequired
    \/ FormCountSubmit
    \/ FormClick
    \/ FormWait
    \/ FormCountValidation
    \/ FormReturn

SpecForm == InitForm /\ [][NextForm]_vars

(***************************************************************************)
(* C21                                                                     *)
(***************************************************************************)
\* C21: test_form_functionality never raises: a call that raises in it
\* leads to its return statement.  In the result it returns, has_validation
\* is true exactly when submit_test is "validation_works"; submit_test is
\* "not_tested" exactly when no submit button was found and no call raised;
\* and it is an "error: ..." string exactly when a call raised.
C21_FormResultIsConsistent ==
    /\ form_raised # "none" => form_pc \in {"return", "returned"}
    /\ form_pc \in {"return", "returned"} =>
          /\ DOMAIN functionality =
                {"has_validation", "required_fields", "submit_test",
                 "api_connectivity"}
          /\ functionality.has_validation
                <=> functionality.submit_test = "validation_works"
          /\ functionality.submit_test = "not_tested"
                <=> (form_buttons = 0 /\ form_raised = "none")
          /\ functionality.submit_test = error_string(ErrorText)
                <=> form_raised # "none"
          /\ functionality.submit_test \in
                {"not_tested", "validation_works", "no_validation",
                 error_string(ErrorText)}

\* the function has returned after the click on the submit button raised
C21_Witness ==
    /\ form_pc = "returned"
    /\ form_raised = "click"
    /\ form_buttons > 0
    /\ ~functionality.has_validation
    /\ functionality.submit_test = error_string(ErrorText)

(***************************************************************************)
(* analyze_platform up to the end of its analyze_main_application, on      *)
(* pages of every layout.                                                  *)
(***************************************************************************)
InitPlatformApp == Init /\ script = "platform"

NextPlatformApp ==
    \/ Launch
    \/ AnalyzeLoginPage
    \/ PlatformAppGoto
    \/ PlatformAppScreenshot
    \/ PlatformAppExtract(PageLayouts)
    \/ PlatformAppReturn

SpecPlatformApp == InitPlatformApp /\ [][NextPlatformApp]_vars

(***************************************************************************)
(* C22                                                                     *)
(***************************************************************************)
\* the URL holds the letters l, o, g, i, n in a row, in either case
MentionsLogin(u) ==
    \E k \in 0..(Len(u) - 5) :
        \A j \in 1..5 :
            u[k + j] \in {<<"l", "o", "g", "i", "n">>[j],
                          <<"L", "O", "G", "I", "N">>[j]}

====
